---- MODULE Spec2Model ----
(***************************************************************************)
(* Model of src/app.py: the policy chatbot's intent extractor              *)
(* (UnifiedPolicyChatbot.extract_user_info), its three source adapters     *)
(* (YouthPolicyAPI, BizinfoPolicyAPI, AlioplusPolicyAPI) and the federated *)
(* search (UnifiedPolicyChatbot.search_policies) driven by chat().         *)
(*                                                                         *)
(* Text is a sequence of characters.  A Hangul syllable is written as its  *)
(* romanisation ("jeong" for 정, "yi" for 이), an ASCII character as       *)
(* itself, so that Python's substring test `kw in message` is a real       *)
(* substring search.                                                       *)
(***************************************************************************)
EXTENDS Integers, Sequences, FiniteSets, TLC

VARIABLES
    pc,              \* position of the one request being served
    kullm_loaded,    \* UnifiedPolicyChatbot.kullm_loaded
    message,         \* the text given to chat() / extract_user_info()
    user_info,       \* the dict extract_user_info returned
    calls,           \* adapter requests issued so far, in order
    response,        \* the upstream's answer to the request in flight
    fetched,         \* what the adapter's get_policies returned
    all_policies,    \* search_policies' all_policies
    unique_policies, \* search_policies' unique_policies
    policy_results,  \* what search_policies returned to chat()
    reply            \* what chat() returned (or the exception that left it)

vars == <<pc, kullm_loaded, message, user_info, calls, response, fetched,
          all_policies, unique_policies, policy_results, reply>>

---------------------------------------------------------------------------
(* Python values.  A value of a dict or a variable is one of: None, an int *)
(* (or a string int() accepts), a text string, or Missing (the key is not  *)
(* in the dict).                                                           *)

None == [tag |-> "none", n |-> 0, s |-> <<>>]

Missing == [tag |-> "missing", n |-> 0, s |-> <<>>]

PyInt(k) == [tag |-> "int", n |-> k, s |-> <<>>]

PyStr(t) == [tag |-> "str", n |-> 0, s |-> t]

\* dict.get(key, default): the default only when the key is absent
Get(v, default) == IF v.tag = "missing" THEN default ELSE v

\* dict.get(key): None when the key is absent
GetOrNone(v) == Get(v, None)

\* Python truthiness of a value
Truthy(v) ==
    CASE v.tag = "int" -> v.n # 0
      [] v.tag = "str" -> v.s # <<>>
      [] OTHER -> FALSE

IsStr(v) == v.tag = "str"

\* `pat in text` for two strings
Contains(text, pat) ==
    \E i \in 1..(Len(text) - Len(pat) + 1) :
        \A j \in 1..Len(pat) : text[i + j - 1] = pat[j]

\* any(kw in text for kw in list)
AnyIn(list, text) == \E i \in 1..Len(list) : Contains(text, list[i])

\* str.lower(): only ASCII letters have a lower case here
LowerChar(c) ==
    CASE c = "H" -> "h"
      [] c = "I" -> "i"
      [] c = "R" -> "r"
      [] c = "D" -> "d"
      [] OTHER -> c

Lower(text) == [i \in 1..Len(text) |-> LowerChar(text[i])]

\* str.strip(): leading and trailing blanks removed
RECURSIVE LStrip(_)
LStrip(text) ==
    IF text # <<>> /\ Head(text) = " " THEN LStrip(Tail(text)) ELSE text

RECURSIVE RStrip(_)
RStrip(text) ==
    IF text # <<>> /\ text[Len(text)] = " "
    THEN RStrip(SubSeq(text, 1, Len(text) - 1))
    ELSE text

Strip(text) == RStrip(LStrip(text))

Digits == {"0", "1", "2", "3", "4", "5", "6", "7", "8", "9"}

DigitSeq == <<"0", "1", "2", "3", "4", "5", "6", "7", "8", "9">>

DigitVal(c) == (CHOOSE i \in 1..10 : DigitSeq[i] = c) - 1

\* int() of a string of digits
RECURSIVE IntOfDigits(_)
IntOfDigits(ds) ==
    IF ds = <<>> THEN 0
    ELSE 10 * IntOfDigits(SubSeq(ds, 1, Len(ds) - 1)) + DigitVal(ds[Len(ds)])

\* the smallest element of a non-empty set of integers
Min(S) == CHOOSE x \in S : \A y \in S : x <= y

\* max(a, b)
Max2(a, b) == IF a >= b THEN a ELSE b

---------------------------------------------------------------------------
(* The vocabularies of extract_user_info, in the order of the source.      *)

\* all_age_keywords: 전연령, 모든 연령, 연령무관, 연령 무관, 나이무관, 나이 무관
all_age_keywords ==
    << <<"jeon", "yeon", "ryeong">>,
       <<"mo", "deun", " ", "yeon", "ryeong">>,
       <<"yeon", "ryeong", "mu", "gwan">>,
       <<"yeon", "ryeong", " ", "mu", "gwan">>,
       <<"na", "yi", "mu", "gwan">>,
       <<"na", "yi", " ", "mu", "gwan">> >>

\* regions (key = value for every entry): 서울 부산 대구 인천 광주 대전 울산 세종
\* 경기 강원 충북 충남 충청 전북 전남 전라 경북 경남 경상 제주 창원 거제 함안 청주
\* 천안 김해
regions ==
    << <<"seo", "ul">>, <<"bu", "san">>, <<"dae", "gu">>, <<"in", "cheon">>,
       <<"gwang", "ju">>, <<"dae", "jeon">>, <<"ul", "san">>, <<"se", "jong">>,
       <<"gyeong", "gi">>, <<"gang", "won">>, <<"chung", "buk">>,
       <<"chung", "nam">>, <<"chung", "cheong">>, <<"jeon", "buk">>,
       <<"jeon", "nam">>, <<"jeon", "ra">>, <<"gyeong", "buk">>,
       <<"gyeong", "nam">>, <<"gyeong", "sang">>, <<"je", "ju">>,
       <<"chang", "won">>, <<"geo", "je">>, <<"ham", "an">>,
       <<"cheong", "ju">>, <<"cheon", "an">>, <<"gim", "hae">> >>

\* 노인, 어르신, 고령, 시니어
senior_words ==
    << <<"no", "in">>, <<"eo", "reu", "sin">>, <<"go", "ryeong">>,
       <<"si", "ni", "eo">> >>

\* 기업, 사업자, 중소기업
business_words ==
    << <<"gi", "eop">>, <<"sa", "eop", "ja">>, <<"jung", "so", "gi", "eop">> >>

\* 청년, 취업, 대학생
youth_words ==
    << <<"cheong", "nyeon">>, <<"chwi", "eop">>, <<"dae", "hak", "saeng">> >>

\* keywords: 창업 취업 주거 자격증 대출 교육 R&D 면접 전세 월세 훈련 인턴 채용
\* 장려금 생활비 노인 어르신 복지 지원 돌봄 건강 의료 요양 일자리 구직 청년 고용
\* 직업 기술 연구 개발
keywords ==
    << <<"chang", "eop">>, <<"chwi", "eop">>, <<"ju", "geo">>,
       <<"ja", "gyeok", "jeung">>, <<"dae", "chul">>, <<"gyo", "yuk">>,
       <<"R", "&", "D">>, <<"myeon", "jeop">>, <<"jeon", "se">>,
       <<"wol", "se">>, <<"hun", "ryeon">>, <<"in", "teon">>,
       <<"chae", "yong">>, <<"jang", "ryeo", "geum">>,
       <<"saeng", "hwal", "bi">>, <<"no", "in">>, <<"eo", "reu", "sin">>,
       <<"bok", "ji">>, <<"ji", "won">>, <<"dol", "bom">>,
       <<"geon", "gang">>, <<"ui", "ryo">>, <<"yo", "yang">>,
       <<"il", "ja", "ri">>, <<"gu", "jik">>, <<"cheong", "nyeon">>,
       <<"go", "yong">>, <<"jik", "eop">>, <<"gi", "sul">>,
       <<"yeon", "gu">>, <<"gae", "bal">> >>

\* policy_keywords: 정책 지원 사업 프로그램 혜택 보조금
policy_keywords ==
    << <<"jeong", "chaek">>, <<"ji", "won">>, <<"sa", "eop">>,
       <<"peu", "ro", "geu", "raem">>, <<"hye", "taek">>,
       <<"bo", "jo", "geum">> >>

\* search_verbs: 찾아 검색 뽑아 추천 보여 달라
search_verbs ==
    << <<"chaj", "a">>, <<"geom", "saek">>, <<"ppob", "a">>,
       <<"chu", "cheon">>, <<"bo", "yeo">>, <<"dal", "ra">> >>

\* general_verbs: 알려 궁금 뭐야 이유 장점 단점 의미 정의 설명
general_verbs ==
    << <<"al", "ryeo">>, <<"gung", "geum">>, <<"mwo", "ya">>, <<"yi", "yu">>,
       <<"jang", "jeom">>, <<"dan", "jeom">>, <<"ui", "mi">>,
       <<"jeong", "ui">>, <<"seol", "myeong">> >>

\* 줘, 주세요
give_words == << <<"jwo">>, <<"ju", "se", "yo">> >>

\* 이유, 뭐야, 설명
explain_words == << <<"yi", "yu">>, <<"mwo", "ya">>, <<"seol", "myeong">> >>

\* the greetings extract_user_info excludes: 안녕 안녕하세요 hi 헬로 뭐해 잘가
extract_greetings ==
    << <<"an", "nyeong">>, <<"an", "nyeong", "ha", "se", "yo">>, <<"h", "i">>,
       <<"hel", "ro">>, <<"mwo", "hae">>, <<"jal", "ga">> >>

\* the greetings chat() answers itself: 안녕 안녕하세요 hi 헬로
chat_greetings ==
    << <<"an", "nyeong">>, <<"an", "nyeong", "ha", "se", "yo">>, <<"h", "i">>,
       <<"hel", "ro">> >>

\* the first entry of `list` that occurs in `text`, as a value; None if none
FirstIn(list, text) ==
    LET hits == {i \in 1..Len(list) : Contains(text, list[i])}
    IN  IF hits = {} THEN None ELSE PyStr(list[Min(hits)])

---------------------------------------------------------------------------
(* extract_user_info                                                       *)

DEFAULT_MAX_RESULTS == 3

COUNT_MAX == 20

DECADE_MAX == 12

AGE_MAX == 120

IsDigit(c) == c \in Digits

\* re.search(r'(\d+)개', message): the leftmost run of digits that ends at 개;
\* the value of group 1, or None when nothing matches
CountMatch(m) ==
    LET ends(s) == {e \in s..(Len(m) - 1) :
                        /\ \A k \in s..e : IsDigit(m[k])
                        /\ m[e + 1] = "gae"}
        starts == {s \in 1..Len(m) : ends(s) # {}}
    IN  IF starts = {} THEN None
        ELSE LET s == Min(starts)
                 e == Min(ends(s))
             IN  PyInt(IntOfDigits(SubSeq(m, s, e)))

\* re.search(r'(\d{1,2})대', message)
DecadeMatch(m) ==
    LET two(s) == /\ s + 2 <= Len(m)
                  /\ IsDigit(m[s]) /\ IsDigit(m[s + 1]) /\ m[s + 2] = "dae"
        one(s) == /\ s + 1 <= Len(m)
                  /\ IsDigit(m[s]) /\ m[s + 1] = "dae"
        starts == {s \in 1..Len(m) : two(s) \/ one(s)}
    IN  IF starts = {} THEN None
        ELSE LET s == Min(starts)
             IN  IF two(s) THEN PyInt(IntOfDigits(SubSeq(m, s, s + 1)))
                 ELSE PyInt(IntOfDigits(SubSeq(m, s, s)))

\* re.search(r'(\d{2})살', message) and re.search(r'(\d{2})세', message)
TwoDigitsThen(m, suffix) ==
    LET starts == {s \in 1..(Len(m) - 2) :
                       IsDigit(m[s]) /\ IsDigit(m[s + 1]) /\ m[s + 2] = suffix}
    IN  IF starts = {} THEN None
        ELSE PyInt(IntOfDigits(SubSeq(m, Min(starts), Min(starts) + 1)))

\* the position after the blanks that start at p (regex \s*)
RECURSIVE SkipBlanks(_, _)
SkipBlanks(m, p) ==
    IF p <= Len(m) /\ m[p] = " " THEN SkipBlanks(m, p + 1) ELSE p

\* re.search(r'나이[는]?\s*(\d{2})', message)
NaiMatch(m) ==
    LET digitsAt(s) ==
            LET p == IF s + 2 <= Len(m) /\ m[s + 2] = "neun" THEN s + 3 ELSE s + 2
            IN  SkipBlanks(m, p)
        ok(s) == /\ m[s] = "na" /\ m[s + 1] = "yi"
                 /\ digitsAt(s) + 1 <= Len(m)
                 /\ IsDigit(m[digitsAt(s)]) /\ IsDigit(m[digitsAt(s) + 1])
        starts == {s \in 1..(Len(m) - 1) : ok(s)}
    IN  IF starts = {} THEN None
        ELSE LET q == digitsAt(Min(starts))
             IN  PyInt(IntOfDigits(SubSeq(m, q, q + 1)))

\* the bound on a decade N: 1 <= N <= 12
DecadeAccepted(n) == 1 <= n /\ n <= DECADE_MAX

\* the bound on an exact age: 0 <= age_val <= 120
ExactAccepted(n) == 0 <= n /\ n <= AGE_MAX

\* the loop over age_patterns: the first pattern that matches with an accepted
\* value sets the age; a pattern whose first match is rejected is skipped
ExtractAge(m) ==
    LET decade == DecadeMatch(m)
        exact == << TwoDigitsThen(m, "sal"), TwoDigitsThen(m, "se"), NaiMatch(m) >>
        good == {i \in 1..3 : exact[i] # None /\ ExactAccepted(exact[i].n)}
    IN  IF decade # None /\ DecadeAccepted(decade.n) THEN PyInt(decade.n * 10 + 5)
        ELSE IF good # {} THEN exact[Min(good)]
        ELSE None

\* max_results: the count of "<N>개" when 1 <= N <= 20, else the default
ExtractMaxResults(m) ==
    LET c == CountMatch(m)
    IN  IF c # None /\ 1 <= c.n /\ c.n <= COUNT_MAX THEN c.n
        ELSE DEFAULT_MAX_RESULTS

\* a faulty target rule that does not count 취업 among the youth words
ExtractTarget_NoJobWord(m) ==
    IF AnyIn(senior_words, m) THEN "senior"
    ELSE IF AnyIn(business_words, m) THEN "business"
    ELSE IF Contains(m, <<"cheong", "nyeon">>) \/ Contains(m, <<"dae", "hak", "saeng">>)
         THEN "youth"
    ELSE "both"

\* target: senior words win over business words, those over youth words
ExtractTarget(m) ==
    IF AnyIn(senior_words, m) THEN "senior"
    ELSE IF AnyIn(business_words, m) THEN "business"
    ELSE IF AnyIn(youth_words, m) THEN "youth"
    ELSE "both"

\* message.strip().lower() in [the greetings]
IsExtractGreeting(m) ==
    \E i \in 1..Len(extract_greetings) : Lower(Strip(m)) = extract_greetings[i]

\* a faulty rule order in which the 줘/주세요 rule fires after the
\* explanation-word rule and so wins over it
ExplicitSearch_GiveLast(m, age, region, keyword) ==
    LET has_policy_context == AnyIn(policy_keywords, m)
        first == \/ (has_policy_context /\ AnyIn(search_verbs, m))
                 \/ /\ has_policy_context
                    /\ (Truthy(age) \/ Truthy(region) \/ Truthy(keyword))
                    /\ ~AnyIn(general_verbs, m)
        second == IF AnyIn(explain_words, m) THEN FALSE ELSE first
        third == IF AnyIn(give_words, m) /\ has_policy_context THEN TRUE ELSE second
    IN  IF IsExtractGreeting(m) THEN FALSE ELSE third

\* the three assignments to info['explicit_search'], in the source's order;
\* a falsy value (None, 0) is FALSE
ExplicitSearch(m, age, region, keyword) ==
    LET has_policy_context == AnyIn(policy_keywords, m)
        has_search_verb == AnyIn(search_verbs, m)
        is_general_query == AnyIn(general_verbs, m)
        first == \/ (has_policy_context /\ has_search_verb)
                 \/ /\ has_policy_context
                    /\ (Truthy(age) \/ Truthy(region) \/ Truthy(keyword))
                    /\ ~is_general_query
        second == IF AnyIn(give_words, m) /\ has_policy_context THEN TRUE ELSE first
        third == IF AnyIn(explain_words, m) THEN FALSE ELSE second
    IN  IF IsExtractGreeting(m) THEN FALSE ELSE third

extract_user_info(m) ==
    LET age == ExtractAge(m)
        region == FirstIn(regions, m)
        keyword == FirstIn(keywords, m)
    IN  [age |-> age,
         region |-> region,
         category |-> None,
         keyword |-> keyword,
         target |-> ExtractTarget(m),
         explicit_search |-> ExplicitSearch(m, age, region, keyword),
         all_ages |-> AnyIn(all_age_keywords, m),
         max_results |-> ExtractMaxResults(m)]

---------------------------------------------------------------------------
(* JSON payloads.  Besides None, ints and strings a payload holds lists    *)
(* and dicts; a dict is a record whose fields are its keys.  The fields of *)
(* an upstream item are None, ints or strings.                             *)

PyList(items) == [tag |-> "list", items |-> items]

PyDict(d) == [tag |-> "dict", d |-> d]

IsDict(v) == v.tag = "dict"

IsList(v) == v.tag = "list"

\* `not v` is false: v is truthy, for every kind of value
TruthyJson(v) ==
    CASE v.tag = "list" -> v.items # <<>>
      [] v.tag = "dict" -> DOMAIN v.d # {}
      [] OTHER -> Truthy(v)

\* d[k] of a dict's record, Missing when the key is absent
Key(d, k) == IF k \in DOMAIN d THEN d[k] ELSE Missing

\* d[k] = v
SetKey(d, k, v) == [x \in DOMAIN d \cup {k} |-> IF x = k THEN v ELSE d[x]]

\* what an HTTP exchange gives the adapter: an exception of requests (timeout,
\* connection error), a status other than 200, a 200 whose body json() cannot
\* parse, or a 200 with the parsed body
HttpError == [kind |-> "exception", data |-> None]

HttpStatus == [kind |-> "status", data |-> None]

HttpInvalid == [kind |-> "invalid_json", data |-> None]

HttpJson(data) == [kind |-> "json", data |-> data]

\* the result of a call: the list it returns, or the exception that leaves it
Returned(list) == [raised |-> FALSE, value |-> list]

Raised == [raised |-> TRUE, value |-> <<>>]

\* the elements of seq that satisfy Keep, in order
RECURSIVE SelectIdx(_, _, _)
SelectIdx(seq, Keep(_), i) ==
    IF i > Len(seq) THEN <<>>
    ELSE IF Keep(seq[i]) THEN <<seq[i]>> \o SelectIdx(seq, Keep, i + 1)
    ELSE SelectIdx(seq, Keep, i + 1)

\* the sequences of k distinct indices out of S
RECURSIVE Arrangements(_, _)
Arrangements(S, k) ==
    IF k = 0 THEN {<<>>}
    ELSE UNION {{<<i>> \o t : t \in Arrangements(S \ {i}, k - 1)} : i \in S}

\* a faulty cut that keeps one element more than max_results
ShuffleTruncate_OneMore(list, max_results) ==
    IF Len(list) > max_results
    THEN {[i \in 1..(max_results + 1) |-> list[a[i]]] :
              a \in Arrangements(1..Len(list), max_results + 1)}
    ELSE {list}

\* if len(list) > max_results: random.shuffle(list); list = list[:max_results]
\* every result the shuffle can give
ShuffleTruncate(list, max_results) ==
    IF Len(list) > max_results
    THEN {[i \in 1..max_results |-> list[a[i]]] :
              a \in Arrangements(1..Len(list), max_results)}
    ELSE {list}

NA == PyStr(<<"N", "/", "A">>)

EmptyStr == PyStr(<<>>)

\* source names: 온통청년, 기업마당, 알리오플러스
SourceYouth == PyStr(<<"on", "tong", "cheong", "nyeon">>)

SourceBizinfo == PyStr(<<"gi", "eop", "ma", "dang">>)

SourceAlioplus == PyStr(<<"al", "ri", "o", "peul", "reo", "seu">>)

---------------------------------------------------------------------------
(* YouthPolicyAPI                                                          *)

YOUTH_DEFAULT_MIN_AGE == 0

YOUTH_DEFAULT_MAX_AGE == 999

POLICY_AGE_MAX == 120

ALL_AGES_WIDTH == 50

\* get_policies: response.json() on a 200, None otherwise
YouthGetPolicies(resp) == IF resp.kind = "json" THEN resp.data ELSE None

\* region_mapping.get(region, [region]); the entries not listed map a region
\* to itself alone, as the default does
region_mapping(region) ==
    CASE region = <<"chung", "buk">> ->
            << <<"chung", "cheong", "buk", "do">>, <<"chung", "buk">> >>
      [] region = <<"chung", "nam">> ->
            << <<"chung", "cheong", "nam", "do">>, <<"chung", "nam">> >>
      [] region = <<"chung", "cheong">> ->
            << <<"chung", "cheong", "buk", "do">>, <<"chung", "buk">>,
               <<"chung", "cheong", "nam", "do">>, <<"chung", "nam">>,
               <<"dae", "jeon">>, <<"se", "jong">> >>
      [] region = <<"jeon", "buk">> ->
            << <<"jeon", "ra", "buk", "do">>, <<"jeon", "buk">>,
               <<"jeon", "buk", "teuk", "byeol", "ja", "chi", "do">> >>
      [] region = <<"jeon", "nam">> ->
            << <<"jeon", "ra", "nam", "do">>, <<"jeon", "nam">> >>
      [] region = <<"jeon", "ra">> ->
            << <<"jeon", "ra", "buk", "do">>, <<"jeon", "buk">>,
               <<"jeon", "ra", "nam", "do">>, <<"jeon", "nam">>,
               <<"gwang", "ju">> >>
      [] region = <<"gyeong", "buk">> ->
            << <<"gyeong", "sang", "buk", "do">>, <<"gyeong", "buk">> >>
      [] region = <<"gyeong", "nam">> ->
            << <<"gyeong", "sang", "nam", "do">>, <<"gyeong", "nam">> >>
      [] region = <<"gyeong", "sang">> ->
            << <<"gyeong", "sang", "buk", "do">>, <<"gyeong", "buk">>,
               <<"gyeong", "sang", "nam", "do">>, <<"gyeong", "nam">>,
               <<"bu", "san">>, <<"ul", "san">>, <<"dae", "gu">> >>
      [] OTHER -> << region >>

\* the age block of the loop (lines 72-90): "skip" is `continue`; "pass" is
\* falling through, which is also what the bare except does when int() fails
YouthAgeFilter(policy, age, all_ages) ==
    IF ~(Truthy(age) \/ all_ages) THEN "pass"
    ELSE LET lo == Get(Key(policy, "sprtTrgtMinAge"), PyInt(YOUTH_DEFAULT_MIN_AGE))
             hi == Get(Key(policy, "sprtTrgtMaxAge"), PyInt(YOUTH_DEFAULT_MAX_AGE))
         IN  IF lo.tag # "int" \/ hi.tag # "int" THEN "pass"
             ELSE IF \/ lo.n < 0 \/ lo.n > POLICY_AGE_MAX
                     \/ hi.n < 0 \/ hi.n > POLICY_AGE_MAX THEN "skip"
             ELSE IF all_ages
                  THEN (IF hi.n - lo.n < ALL_AGES_WIDTH THEN "skip" ELSE "pass")
             ELSE IF ~(lo.n <= age.n /\ age.n <= hi.n) THEN "skip"
             ELSE "pass"

\* the region block (lines 93-134); `x in inst_name` raises unless inst_name
\* is a string
YouthRegionFilter(policy, region) ==
    IF ~Truthy(region) THEN "pass"
    ELSE LET inst_name == Get(Key(policy, "rgtrInstCdNm"), EmptyStr)
         IN  IF ~IsStr(inst_name) THEN "raise"
             ELSE IF AnyIn(region_mapping(region.s), inst_name.s) THEN "pass"
             ELSE "skip"

\* the category block (lines 137-140)
YouthCategoryFilter(policy, category) ==
    IF ~Truthy(category) THEN "pass"
    ELSE LET policy_category == Get(Key(policy, "lclsfNm"), EmptyStr)
         IN  IF ~IsStr(policy_category) THEN "raise"
             ELSE IF Contains(policy_category.s, category.s) THEN "pass"
             ELSE "skip"

\* the keyword block (lines 143-147): `and` evaluates the description only
\* when the name does not hold the keyword
YouthKeywordFilter(policy, keyword) ==
    IF ~Truthy(keyword) THEN "pass"
    ELSE LET policy_name == Get(Key(policy, "plcyNm"), EmptyStr)
             policy_content == Get(Key(policy, "plcyExplnCn"), EmptyStr)
         IN  IF ~IsStr(policy_name) THEN "raise"
             ELSE IF Contains(policy_name.s, keyword.s) THEN "pass"
             ELSE IF ~IsStr(policy_content) THEN "raise"
             ELSE IF Contains(policy_content.s, keyword.s) THEN "pass"
             ELSE "skip"

\* one turn of the loop over policies: "keep", "skip" or "raise".  An element
\* that is no dict raises at its first use outside the try block
YouthItemOutcome(item, age, region, category, keyword, all_ages) ==
    IF ~IsDict(item) THEN "raise"
    ELSE LET a == YouthAgeFilter(item.d, age, all_ages)
             r == YouthRegionFilter(item.d, region)
             c == YouthCategoryFilter(item.d, category)
             k == YouthKeywordFilter(item.d, keyword)
         IN  IF a # "pass" THEN a
             ELSE IF r # "pass" THEN r
             ELSE IF c # "pass" THEN c
             ELSE IF k # "pass" THEN k
             ELSE "keep"

\* lines 64-67: the list the loop runs over, or the exception raised on the
\* way to it
YouthPolicyList(data) ==
    IF ~TruthyJson(data) THEN Returned(<<>>)
    ELSE IF data.tag = "int" THEN Raised
    ELSE IF data.tag = "str"
         THEN (IF Contains(data.s, <<"r", "e", "s", "u", "l", "t">>)
               THEN Raised ELSE Returned(<<>>))
    ELSE IF data.tag = "list"
         THEN (IF \E i \in 1..Len(data.items) :
                      data.items[i] = PyStr(<<"r", "e", "s", "u", "l", "t">>)
               THEN Raised ELSE Returned(<<>>))
    ELSE IF "result" \notin DOMAIN data.d THEN Returned(<<>>)
    ELSE IF ~IsDict(data.d.result) THEN Raised
    ELSE LET policies == Get(Key(data.d.result.d, "youthPolicyList"), PyList(<<>>))
         IN  IF IsList(policies) THEN Returned(policies.items)
             ELSE IF policies.tag \in {"str", "dict"} /\ ~TruthyJson(policies)
                  THEN Returned(<<>>)
             ELSE Raised

\* search_policies up to the shuffle: the filtered list, or the exception
YouthFiltered(data, age, region, category, keyword, all_ages) ==
    LET list == YouthPolicyList(data)
        out(item) == YouthItemOutcome(item, age, region, category, keyword, all_ages)
        keep(item) == out(item) = "keep"
    IN  IF list.raised THEN Raised
        ELSE IF \E i \in 1..Len(list.value) : out(list.value[i]) = "raise"
             THEN Raised
        ELSE LET kept == SelectIdx(list.value, keep, 1)
             IN  Returned([i \in 1..Len(kept) |->
                              SetKey(kept[i].d, "source", SourceYouth)])

\* YouthPolicyAPI.search_policies on the data get_policies gave: every
\* outcome the call can have
YouthSearch(data, age, region, category, keyword, max_results, all_ages) ==
    LET f == YouthFiltered(data, age, region, category, keyword, all_ages)
    IN  IF f.raised THEN {Raised}
        ELSE {Returned(l) : l \in ShuffleTruncate(f.value, max_results)}

---------------------------------------------------------------------------
(* BizinfoPolicyAPI                                                        *)

BIZINFO_URL_PREFIX == <<"https://www.bizinfo.go.kr">>

\* lines 197-203: items, None when the payload has no jsonArray of a known
\* shape; an exception here is caught by get_policies (Raised)
BizinfoItems(data) ==
    IF data.tag \in {"none", "int"} THEN Raised
    ELSE IF data.tag = "str"
         THEN (IF Contains(data.s, <<"jsonArray">>) THEN Raised ELSE Returned(None))
    ELSE IF data.tag = "list"
         THEN (IF \E i \in 1..Len(data.items) : data.items[i] = PyStr(<<"jsonArray">>)
               THEN Raised ELSE Returned(None))
    ELSE IF "jsonArray" \notin DOMAIN data.d THEN Returned(None)
    ELSE LET arr == data.d.jsonArray
         IN  IF IsDict(arr) /\ "item" \in DOMAIN arr.d THEN Returned(arr.d.item)
             ELSE IF IsList(arr) THEN Returned(arr)
             ELSE Returned(None)

\* lines 210-218: the dict built for one item
BizinfoPolicy(item) ==
    [title |-> Get(Key(item, "pblancNm"), NA),
     agency |-> Get(Key(item, "jrsdInsttNm"), NA),
     category |-> Get(Key(item, "pldirSportRealmLclasCodeNm"), NA),
     summary |-> Get(Key(item, "bsnsSumryCn"), NA),
     period |-> Get(Key(item, "rceptPrdCn"), NA),
     url |-> PyStr(BIZINFO_URL_PREFIX \o Get(Key(item, "pblancUrl"), EmptyStr).s),
     source |-> SourceBizinfo]

\* an item the loop of lines 209-219 cannot turn into a policy: item.get needs
\* a dict, and the prefix can only be joined to a string
BizinfoItemRaises(item) ==
    \/ ~IsDict(item)
    \/ ~IsStr(Get(Key(item.d, "pblancUrl"), EmptyStr))

\* get_policies: every exception is caught and gives []
BizinfoGetPolicies(resp) ==
    IF resp.kind # "json" THEN <<>>
    ELSE LET found == BizinfoItems(resp.data)
         IN  IF found.raised THEN <<>>
             ELSE LET items == found.value
                  IN  IF ~TruthyJson(items) THEN <<>>
                      ELSE IF ~IsList(items) THEN <<>>
                      ELSE IF \E i \in 1..Len(items.items) :
                                  BizinfoItemRaises(items.items[i])
                           THEN <<>>
                      ELSE [i \in 1..Len(items.items) |->
                               BizinfoPolicy(items.items[i].d)]

\* one turn of the loop of BizinfoPolicyAPI.search_policies and of
\* AlioplusPolicyAPI.search_policies (lines 232-242, 331-341): .lower() raises
\* unless title and summary are strings; `extra` is the category or lifecycle
\* asked for and `field` the key it is looked up in
TitleSummaryOutcome(policy, keyword, extra, field) ==
    IF ~IsStr(policy.title) \/ ~IsStr(policy.summary) THEN "raise"
    ELSE IF /\ Truthy(keyword)
            /\ ~Contains(Lower(policy.title.s), Lower(keyword.s))
            /\ ~Contains(Lower(policy.summary.s), Lower(keyword.s)) THEN "skip"
    ELSE IF ~Truthy(extra) THEN "keep"
    ELSE IF ~IsStr(policy[field]) THEN "raise"
    ELSE IF ~Contains(policy[field].s, extra.s) THEN "skip"
    ELSE "keep"

\* the loop over all_policies: the filtered list, or the exception
TitleSummaryFiltered(policies, keyword, extra, field) ==
    LET out(policy) == TitleSummaryOutcome(policy, keyword, extra, field)
        keep(policy) == out(policy) = "keep"
    IN  IF \E i \in 1..Len(policies) : out(policies[i]) = "raise" THEN Raised
        ELSE Returned(SelectIdx(policies, keep, 1))

\* BizinfoPolicyAPI.search_policies on what get_policies gave
BizinfoSearch(policies, keyword, category, max_results) ==
    LET f == TitleSummaryFiltered(policies, keyword, category, "category")
    IN  IF f.raised THEN {Raised}
        ELSE {Returned(l) : l \in ShuffleTruncate(f.value, max_results)}

---------------------------------------------------------------------------
(* AlioplusPolicyAPI                                                       *)

\* lines 288-292
AlioplusItems(data) ==
    IF IsDict(data)
    THEN Get(Key(data.d, "list"), Get(Key(data.d, "data"), PyList(<<>>)))
    ELSE IF IsList(data) THEN data
    ELSE PyList(<<>>)

\* lines 303-314
AlioplusPolicy(item) ==
    [title |-> Get(Key(item, "bsnNa"), NA),
     agency |-> Get(Key(item, "apbaNa"), NA),
     summary |-> Get(Key(item, "bsnDsc"), NA),
     lifecycle |-> Get(Key(item, "lifeCycleNa"), NA),
     target |-> Get(Key(item, "guideTar"), NA),
     method |-> Get(Key(item, "guideMth"), NA),
     inquiry |-> Get(Key(item, "guideDsc"), NA),
     url |-> Get(Key(item, "siteUrl"), EmptyStr),
     category |-> Get(Key(item, "svcCateNa"), NA),
     source |-> SourceAlioplus]

\* get_policies: elements that are no dicts are passed over
AlioplusGetPolicies(resp) ==
    IF resp.kind # "json" THEN <<>>
    ELSE LET items == AlioplusItems(resp.data)
         IN  IF ~TruthyJson(items) \/ ~IsList(items) THEN <<>>
             ELSE LET dicts == SelectIdx(items.items, IsDict, 1)
                  IN  [i \in 1..Len(dicts) |-> AlioplusPolicy(dicts[i].d)]

\* AlioplusPolicyAPI.search_policies on what get_policies gave
AlioplusSearch(policies, keyword, lifecycle, max_results) ==
    LET f == TitleSummaryFiltered(policies, keyword, lifecycle, "lifecycle")
    IN  IF f.raised THEN {Raised}
        ELSE {Returned(l) : l \in ShuffleTruncate(f.value, max_results)}

---------------------------------------------------------------------------
(* UnifiedPolicyChatbot.search_policies                                    *)

OVERFETCH_MIN == 3

OVERFETCH_FACTOR == 2

YOUTH_AGE_CEILING == 39

\* results_per_api = max(3, max_results * 2)
results_per_api(max_results) == Max2(OVERFETCH_MIN, max_results * OVERFETCH_FACTOR)

\* a faulty count that asks AlioPlus for max(3, max_results) only
RequestedFrom_AlioplusSingle(api, max_results) ==
    IF api = "alioplus" THEN Max2(OVERFETCH_MIN, max_results)
    ELSE results_per_api(max_results)

\* the count each adapter is asked for (lines 636, 646, 653)
RequestedFrom(api, max_results) == results_per_api(max_results)

\* line 630: all_ages or age is None or (age and age <= 39)
YouthAgeGate(age, all_ages) ==
    all_ages \/ age = None \/ (Truthy(age) /\ age.n <= YOUTH_AGE_CEILING)

\* lines 629-630
YouthGate(info) ==
    info.target \in {"youth", "both"} /\ YouthAgeGate(info.age, info.all_ages)

\* line 642
BusinessGate(info) == info.target \in {"business", "both", "senior"}

\* line 662: policy.get('refUrlAddr1') or policy.get('url')
DedupUrl(policy) ==
    LET ref == GetOrNone(Key(policy, "refUrlAddr1"))
    IN  IF Truthy(ref) THEN ref ELSE GetOrNone(Key(policy, "url"))

\* a faulty test that appends a policy whether or not its URL was seen
DedupKeeps_Unseen(url, seen_urls) == Truthy(url) \/ ~Truthy(url)

\* line 663-668: is the policy appended, given the URLs seen so far
DedupKeeps(url, seen_urls) == (Truthy(url) /\ url \notin seen_urls) \/ ~Truthy(url)

\* lines 658-668, from the i-th policy on
RECURSIVE DedupFrom(_, _, _)
DedupFrom(policies, i, seen_urls) ==
    IF i > Len(policies) THEN <<>>
    ELSE LET url == DedupUrl(policies[i])
         IN  IF DedupKeeps(url, seen_urls)
             THEN <<policies[i]>> \o
                  DedupFrom(policies, i + 1,
                            IF Truthy(url) THEN seen_urls \cup {url} ELSE seen_urls)
             ELSE DedupFrom(policies, i + 1, seen_urls)

Deduplicate(policies) == DedupFrom(policies, 1, {})

\* lines 677-700: what search_policies returns for the final list: "" when
\* it is empty, the notice about the age when it is empty and age > 39, the
\* formatted cards otherwise
SearchResultText(policies, age) ==
    IF policies = <<>>
    THEN (IF Truthy(age) /\ age.n > YOUTH_AGE_CEILING THEN "age_notice" ELSE "")
    ELSE "cards"

---------------------------------------------------------------------------
(* The inputs: what the user says and what the three upstreams answer.     *)

\* the longest item list an upstream answers with
MaxItems == 2

\* the largest N of the requests "기업 지원 N개 추천"
MaxCountAsked == 21

\* the decimal digits of n, 0 <= n <= 99
DigitsOf(n) ==
    IF n < 10 THEN <<DigitSeq[n + 1]>>
    ELSE <<DigitSeq[(n \div 10) + 1], DigitSeq[(n % 10) + 1]>>

\* 25살 창원 취업 정책 찾아줘
MsgScenario ==
    <<"2", "5", "sal", " ", "chang", "won", " ", "chwi", "eop", " ",
      "jeong", "chaek", " ", "chaj", "a", "jwo">>

\* 전연령 지원 정책 5개 찾아줘
MsgAllAges ==
    <<"jeon", "yeon", "ryeong", " ", "ji", "won", " ", "jeong", "chaek", " ",
      "5", "gae", " ", "chaj", "a", "jwo">>

\* 연봉 협상 잘하는 법 알려줘
MsgSalary ==
    <<"yeon", "bong", " ", "hyeop", "sang", " ", "jal", "ha", "neun", " ",
      "beop", " ", "al", "ryeo", "jwo">>

\* 안녕
MsgHello == <<"an", "nyeong">>

\* Hi
MsgHi == <<"H", "i">>

\* 45살 청년 정책 찾아줘
MsgYouth45 ==
    <<"4", "5", "sal", " ", "cheong", "nyeon", " ", "jeong", "chaek", " ",
      "chaj", "a", "jwo">>

\* 00살 청년 정책 찾아줘
MsgYouth00 ==
    <<"0", "0", "sal", " ", "cheong", "nyeon", " ", "jeong", "chaek", " ",
      "chaj", "a", "jwo">>

\* 39세 정책 찾아줘
MsgAge39 ==
    <<"3", "9", "se", " ", "jeong", "chaek", " ", "chaj", "a", "jwo">>

\* 50대 정책 보여줘
MsgFifties ==
    <<"5", "0", "dae", " ", "jeong", "chaek", " ", "bo", "yeo", "jwo">>

\* 정책 2개 찾아줘
MsgTwo == <<"jeong", "chaek", " ", "2", "gae", " ", "chaj", "a", "jwo">>

\* 노인 복지 정책 찾아줘
MsgSenior ==
    <<"no", "in", " ", "bok", "ji", " ", "jeong", "chaek", " ", "chaj", "a", "jwo">>

\* 정책 설명해줘
MsgExplain == <<"jeong", "chaek", " ", "seol", "myeong", "hae", "jwo">>

\* 취업 정책 알려줘
MsgTellJobs == <<"chwi", "eop", " ", "jeong", "chaek", " ", "al", "ryeo", "jwo">>

\* 기업 지원 N개 추천
MsgBusiness(n) ==
    <<"gi", "eop", " ", "ji", "won", " ">> \o DigitsOf(n)
        \o <<"gae", " ", "chu", "cheon">>

\* 청년 정책 N개 찾아줘
MsgYouthCount(n) ==
    <<"cheong", "nyeon", " ", "jeong", "chaek", " ">> \o DigitsOf(n)
        \o <<"gae", " ", "chaj", "a", "jwo">>

\* what chat() is called with
ChatMessages ==
    {MsgScenario, MsgAllAges, MsgSalary, MsgHello, MsgHi, MsgYouth45,
     MsgYouth00, MsgAge39, MsgFifties, MsgTwo, MsgSenior, MsgExplain,
     MsgTellJobs}
    \cup {MsgBusiness(n) : n \in 0..MaxCountAsked}
    \cup {MsgYouthCount(n) : n \in 0..MaxCountAsked}

\* the sequences over S of length at most n
SeqsUpTo(S, n) == UNION {[1..k -> S] : k \in 0..n}

\* the detail URL that one policy has in all three catalogs
SharedUrl == BIZINFO_URL_PREFIX \o <<"/", "a">>

\* 경상남도 창원시
TextChangwon == <<"gyeong", "sang", "nam", "do", " ", "chang", "won", "si">>

\* 청년 취업 지원
TextYouthJobs == <<"cheong", "nyeon", " ", "chwi", "eop", " ", "ji", "won">>

\* 취업 지원 사업
TextJobs == <<"chwi", "eop", " ", "ji", "won", " ", "sa", "eop">>

\* 기업 지원
TextBusiness == <<"gi", "eop", " ", "ji", "won">>

\* 창업 지원
TextStartup == <<"chang", "eop", " ", "ji", "won">>

\* items of the Youth catalog: one with a detail URL, one with none, one whose
\* institution name is null
YouthCatalog ==
    {PyDict([sprtTrgtMinAge |-> PyInt(19), sprtTrgtMaxAge |-> PyInt(34),
             rgtrInstCdNm |-> PyStr(TextChangwon), plcyNm |-> PyStr(TextYouthJobs),
             refUrlAddr1 |-> PyStr(SharedUrl)]),
     PyDict([sprtTrgtMinAge |-> PyInt(0), sprtTrgtMaxAge |-> PyInt(99),
             rgtrInstCdNm |-> PyStr(TextChangwon), plcyNm |-> PyStr(TextJobs)]),
     PyDict([sprtTrgtMinAge |-> PyInt(19), sprtTrgtMaxAge |-> PyInt(39),
             rgtrInstCdNm |-> None, plcyNm |-> PyStr(TextStartup),
             refUrlAddr1 |-> PyStr(<<"y", "3">>)])}

\* payloads of the Youth upstream that hold no list of items
YouthOddPayloads ==
    {PyDict([resultCode |-> PyInt(200)]),
     PyDict([result |-> None]),
     PyDict([result |-> PyDict([youthPolicyList |-> None])])}

YouthResponses ==
    {HttpError, HttpStatus, HttpInvalid}
    \cup {HttpJson(d) : d \in YouthOddPayloads}
    \cup {HttpJson(PyDict([result |-> PyDict([youthPolicyList |-> PyList(l)])])) :
              l \in SeqsUpTo(YouthCatalog, MaxItems)}

\* items of the BizInfo catalog: one with a URL, two without, one whose title
\* is null
BizinfoCatalog ==
    {PyDict([pblancNm |-> PyStr(TextJobs), bsnsSumryCn |-> PyStr(TextYouthJobs),
             pblancUrl |-> PyStr(<<"/", "a">>)]),
     PyDict([pblancNm |-> PyStr(TextBusiness)]),
     PyDict([pblancNm |-> PyStr(TextStartup)]),
     PyDict([pblancNm |-> None, pblancUrl |-> PyStr(<<"/", "b">>)])}

\* the shapes jsonArray comes in: {"item": [...]}, a bare [...], and
\* {"item": {...}} for a single item
BizinfoPayloads ==
    {PyDict([jsonArray |-> PyDict([item |-> PyList(l)])]) :
         l \in SeqsUpTo(BizinfoCatalog, MaxItems)}
    \cup {PyDict([jsonArray |-> PyList(l)]) : l \in SeqsUpTo(BizinfoCatalog, 1)}
    \cup {PyDict([jsonArray |-> PyDict([item |-> i])]) : i \in BizinfoCatalog}
    \cup {PyDict([reqErr |-> PyStr(<<"e">>)]), PyList(<<>>)}

BizinfoResponses ==
    {HttpError, HttpStatus, HttpInvalid} \cup {HttpJson(d) : d \in BizinfoPayloads}

\* items of the AlioPlus catalog: one with the shared URL, one with none, one
\* whose name is null
AlioplusCatalog ==
    {PyDict([bsnNa |-> PyStr(TextYouthJobs), siteUrl |-> PyStr(SharedUrl)]),
     PyDict([bsnNa |-> PyStr(TextBusiness)]),
     PyDict([bsnNa |-> None, siteUrl |-> PyStr(<<"a", "3">>)])}

AlioplusPayloads ==
    {PyDict([list |-> PyList(l)]) : l \in SeqsUpTo(AlioplusCatalog, MaxItems)}
    \cup {PyDict([data |-> PyList(l)]) : l \in SeqsUpTo(AlioplusCatalog, 1)}
    \cup {PyList(l) : l \in SeqsUpTo(AlioplusCatalog, 1)}
    \cup {PyDict([list |-> None]), PyDict([message |-> PyStr(<<"e">>)])}

AlioplusResponses ==
    {HttpError, HttpStatus, HttpInvalid} \cup {HttpJson(d) : d \in AlioplusPayloads}

---------------------------------------------------------------------------
(* chat() serving one message.  The handler is cut where it waits for an   *)
(* upstream: a request is issued, the upstream answers, the adapter's      *)
(* search_policies returns.                                                *)

\* the info dict before extraction (lines 497-506)
DefaultInfo ==
    [age |-> None, region |-> None, category |-> None, keyword |-> None,
     target |-> "both", explicit_search |-> FALSE, all_ages |-> FALSE,
     max_results |-> DEFAULT_MAX_RESULTS]

NoReply == [head |-> "none", body |-> ""]

\* message.strip() in ['안녕', '안녕하세요', 'hi', '헬로']
IsChatGreeting(m) ==
    \E i \in 1..Len(chat_greetings) : Strip(m) = chat_greetings[i]

Init ==
    /\ pc = "idle"
    /\ kullm_loaded \in BOOLEAN
    /\ message = <<>>
    /\ user_info = DefaultInfo
    /\ calls = <<>>
    /\ response = None
    /\ fetched = None
    /\ all_policies = <<>>
    /\ unique_policies = <<>>
    /\ policy_results = ""
    /\ reply = NoReply

\* a faulty chat() that searches whatever explicit_search says
Chat_SearchAlways(m) ==
    /\ pc = "idle"
    /\ message' = m
    /\ IF IsChatGreeting(m)
       THEN /\ reply' = [head |-> "greeting", body |-> ""]
            /\ pc' = "done"
            /\ UNCHANGED user_info
       ELSE /\ user_info' = extract_user_info(m)
            /\ pc' = "search"
            /\ UNCHANGED reply
    /\ UNCHANGED <<kullm_loaded, calls, response, fetched, all_policies,
                   unique_policies, policy_results>>

\* chat(message) up to the call of search_policies or of the fallback
Chat(m) ==
    /\ pc = "idle"
    /\ message' = m
    /\ IF IsChatGreeting(m)
       THEN /\ reply' = [head |-> "greeting", body |-> ""]
            /\ pc' = "done"
            /\ UNCHANGED user_info
       ELSE /\ user_info' = extract_user_info(m)
            /\ IF user_info'.explicit_search
               THEN pc' = "search" /\ UNCHANGED reply
               ELSE IF kullm_loaded
               THEN pc' = "kullm" /\ UNCHANGED reply
               ELSE pc' = "done" /\ reply' = [head |-> "guidance", body |-> ""]
    /\ UNCHANGED <<kullm_loaded, calls, response, fetched, all_policies,
                   unique_policies, policy_results>>

\* lines 725-740: the text KULLM generates, or the apology when it raises
KullmRespond ==
    /\ pc = "kullm"
    /\ \E head \in {"kullm_response", "kullm_failed"} :
           reply' = [head |-> head, body |-> ""]
    /\ pc' = "done"
    /\ UNCHANGED <<kullm_loaded, message, user_info, calls, response, fetched,
                   all_policies, unique_policies, policy_results>>

\* an exception leaves search_policies and chat(): api_message answers 500
Propagate ==
    /\ pc' = "done"
    /\ reply' = [head |-> "exception", body |-> ""]
    /\ response' = None
    /\ fetched' = None
    /\ UNCHANGED <<all_policies>>

\* an adapter's search_policies returns `list`: all_policies.extend(list)
Extend(list, next) ==
    /\ all_policies' = all_policies \o list
    /\ pc' = next
    /\ response' = None
    /\ fetched' = None
    /\ UNCHANGED reply

\* lines 629-638: the Youth adapter is called
YouthRequest ==
    /\ pc = "search"
    /\ YouthGate(user_info)
    /\ calls' = Append(calls, [api |-> "youth",
                   max_results |-> RequestedFrom("youth", user_info.max_results)])
    /\ pc' = "youth_wait"
    /\ UNCHANGED <<kullm_loaded, message, user_info, response, fetched,
                   all_policies, unique_policies, policy_results, reply>>

\* lines 629-630: the Youth adapter is passed over
YouthSkip ==
    /\ pc = "search"
    /\ ~YouthGate(user_info)
    /\ pc' = "business"
    /\ UNCHANGED <<kullm_loaded, message, user_info, calls, response, fetched,
                   all_policies, unique_policies, policy_results, reply>>

\* YouthPolicyAPI.get_policies ends
YouthRespond(resp) ==
    /\ pc = "youth_wait"
    /\ response' = resp
    /\ fetched' = YouthGetPolicies(resp)
    /\ pc' = "youth_filter"
    /\ UNCHANGED <<kullm_loaded, message, user_info, calls, all_policies,
                   unique_policies, policy_results, reply>>

\* YouthPolicyAPI.search_policies ends (lines 632-639)
YouthReturn ==
    /\ pc = "youth_filter"
    /\ \E out \in YouthSearch(fetched,
                      IF user_info.all_ages THEN None ELSE user_info.age,
                      user_info.region, None, user_info.keyword,
                      RequestedFrom("youth", user_info.max_results),
                      user_info.all_ages) :
           IF out.raised THEN Propagate ELSE Extend(out.value, "business")
    /\ UNCHANGED <<kullm_loaded, message, user_info, calls, unique_policies,
                   policy_results>>

\* lines 642-647: the BizInfo adapter is called
BizinfoRequest ==
    /\ pc = "business"
    /\ BusinessGate(user_info)
    /\ calls' = Append(calls, [api |-> "bizinfo",
                   max_results |-> RequestedFrom("bizinfo", user_info.max_results)])
    /\ pc' = "bizinfo_wait"
    /\ UNCHANGED <<kullm_loaded, message, user_info, response, fetched,
                   all_policies, unique_policies, policy_results, reply>>

\* line 642: BizInfo and AlioPlus are passed over
BusinessSkip ==
    /\ pc = "business"
    /\ ~BusinessGate(user_info)
    /\ pc' = "dedup"
    /\ UNCHANGED <<kullm_loaded, message, user_info, calls, response, fetched,
                   all_policies, unique_policies, policy_results, reply>>

\* BizinfoPolicyAPI.get_policies ends
BizinfoRespond(resp) ==
    /\ pc = "bizinfo_wait"
    /\ response' = resp
    /\ fetched' = BizinfoGetPolicies(resp)
    /\ pc' = "bizinfo_filter"
    /\ UNCHANGED <<kullm_loaded, message, user_info, calls, all_policies,
                   unique_policies, policy_results, reply>>

\* BizinfoPolicyAPI.search_policies ends (lines 644-648)
BizinfoReturn ==
    /\ pc = "bizinfo_filter"
    /\ \E out \in BizinfoSearch(fetched, user_info.keyword, None,
                      RequestedFrom("bizinfo", user_info.max_results)) :
           IF out.raised THEN Propagate ELSE Extend(out.value, "alioplus")
    /\ UNCHANGED <<kullm_loaded, message, user_info, calls, unique_policies,
                   policy_results>>

\* lines 651-654: the AlioPlus adapter is called
AlioplusRequest ==
    /\ pc = "alioplus"
    /\ calls' = Append(calls, [api |-> "alioplus",
                   max_results |-> RequestedFrom("alioplus", user_info.max_results)])
    /\ pc' = "alioplus_wait"
    /\ UNCHANGED <<kullm_loaded, message, user_info, response, fetched,
                   all_policies, unique_policies, policy_results, reply>>

\* AlioplusPolicyAPI.get_policies ends
AlioplusRespond(resp) ==
    /\ pc = "alioplus_wait"
    /\ response' = resp
    /\ fetched' = AlioplusGetPolicies(resp)
    /\ pc' = "alioplus_filter"
    /\ UNCHANGED <<kullm_loaded, message, user_info, calls, all_policies,
                   unique_policies, policy_results, reply>>

\* AlioplusPolicyAPI.search_policies ends (lines 651-655)
AlioplusReturn ==
    /\ pc = "alioplus_filter"
    /\ \E out \in AlioplusSearch(fetched, user_info.keyword, None,
                      RequestedFrom("alioplus", user_info.max_results)) :
           IF out.raised THEN Propagate ELSE Extend(out.value, "dedup")
    /\ UNCHANGED <<kullm_loaded, message, user_info, calls, unique_policies,
                   policy_results>>

\* lines 657-668: all_policies still holds the merged candidates
Dedup ==
    /\ pc = "dedup"
    /\ unique_policies' = Deduplicate(all_policies)
    /\ pc' = "sample"
    /\ UNCHANGED <<kullm_loaded, message, user_info, calls, response, fetched,
                   all_policies, policy_results, reply>>

\* lines 670-700: all_policies = unique_policies, the final shuffle and cut,
\* and the text search_policies returns
Sample ==
    /\ pc = "sample"
    /\ \E final \in ShuffleTruncate(unique_policies, user_info.max_results) :
           /\ all_policies' = final
           /\ policy_results' = SearchResultText(final, user_info.age)
    /\ pc' = "searched"
    /\ UNCHANGED <<kullm_loaded, message, user_info, calls, response, fetched,
                   unique_policies, reply>>

\* lines 719-722: chat() answers with the results or says there are none
ChatReply ==
    /\ pc = "searched"
    /\ reply' = IF policy_results # ""
                THEN [head |-> "found", body |-> policy_results]
                ELSE [head |-> "not_found", body |-> ""]
    /\ pc' = "done"
    /\ UNCHANGED <<kullm_loaded, message, user_info, calls, response, fetched,
                   all_policies, unique_policies, policy_results>>

Next ==
    \/ \E m \in ChatMessages : Chat(m)
    \/ KullmRespond
    \/ YouthRequest
    \/ YouthSkip
    \/ \E resp \in YouthResponses : YouthRespond(resp)
    \/ YouthReturn
    \/ BizinfoRequest
    \/ BusinessSkip
    \/ \E resp \in BizinfoResponses : BizinfoRespond(resp)
    \/ BizinfoReturn
    \/ AlioplusRequest
    \/ \E resp \in AlioplusResponses : AlioplusRespond(resp)
    \/ AlioplusReturn
    \/ Dedup
    \/ Sample
    \/ ChatReply

Spec == Init /\ [][Next]_vars

---------------------------------------------------------------------------
(* extract_user_info alone, on messages put together from parts.           *)

\* the parts joined by single blanks, empty parts left out
RECURSIVE JoinParts(_)
JoinParts(parts) ==
    IF parts = <<>> THEN <<>>
    ELSE LET rest == JoinParts(Tail(parts))
         IN  IF Head(parts) = <<>> THEN rest
             ELSE IF rest = <<>> THEN Head(parts)
             ELSE Head(parts) \o <<" ">> \o rest

\* 25살, 45세, 00살, 20대, 12대, 13대, 나이는 30
AgeParts ==
    {<<>>, <<"2", "5", "sal">>, <<"4", "5", "se">>, <<"0", "0", "sal">>,
     <<"2", "0", "dae">>, <<"1", "2", "dae">>, <<"1", "3", "dae">>,
     <<"na", "yi", "neun", " ", "3", "0">>}

\* 창원
RegionParts == {<<>>, <<"chang", "won">>}

\* 취업, 기업, 노인
TopicParts == {<<>>, <<"chwi", "eop">>, <<"gi", "eop">>, <<"no", "in">>}

\* 정책, 지원
PolicyParts == {<<>>, <<"jeong", "chaek">>, <<"ji", "won">>}

\* 5개, 0개, 20개, 21개
CountParts ==
    {<<>>, <<"5", "gae">>, <<"0", "gae">>, <<"2", "0", "gae">>, <<"2", "1", "gae">>}

\* 찾아줘, 알려줘, 알려주세요, 설명해줘, 뭐야, 추천 이유, 추천해서 설명해줘, 궁금
VerbParts ==
    {<<>>, <<"chaj", "a", "jwo">>, <<"al", "ryeo", "jwo">>,
     <<"al", "ryeo", "ju", "se", "yo">>, <<"seol", "myeong", "hae", "jwo">>,
     <<"mwo", "ya">>, <<"chu", "cheon", " ", "yi", "yu">>,
     <<"chu", "cheon", "hae", "seo", " ", "seol", "myeong", "hae", "jwo">>,
     <<"gung", "geum">>}

ExtractMessages ==
    ChatMessages
    \cup {JoinParts(<<a, r, t, p, c, v>>) :
              a \in AgeParts, r \in RegionParts, t \in TopicParts,
              p \in PolicyParts, c \in CountParts, v \in VerbParts}

InitExtract ==
    /\ pc = "extract"
    /\ kullm_loaded = FALSE
    /\ message \in ExtractMessages
    /\ user_info = DefaultInfo
    /\ calls = <<>>
    /\ response = None
    /\ fetched = None
    /\ all_policies = <<>>
    /\ unique_policies = <<>>
    /\ policy_results = ""
    /\ reply = NoReply

\* extract_user_info(message) returns
Extract ==
    /\ pc = "extract"
    /\ user_info' = extract_user_info(message)
    /\ pc' = "extracted"
    /\ UNCHANGED <<kullm_loaded, message, calls, response, fetched, all_policies,
                   unique_policies, policy_results, reply>>

NextExtract == Extract

SpecExtract == InitExtract /\ [][NextExtract]_vars

---------------------------------------------------------------------------
(* YouthPolicyAPI.search_policies alone, called with its own arguments on  *)
(* a catalog whose items differ in their age bounds.                       *)

\* an item of the Youth catalog with the given raw age bounds
YouthAgeItem(lo, hi) ==
    LET base == [rgtrInstCdNm |-> PyStr(TextChangwon),
                 plcyNm |-> PyStr(TextYouthJobs)]
        withLo == IF lo = Missing THEN base ELSE SetKey(base, "sprtTrgtMinAge", lo)
    IN  PyDict(IF hi = Missing THEN withLo ELSE SetKey(withLo, "sprtTrgtMaxAge", hi))

\* a bound that int() rejects: the string "abc"
NotNumeric == PyStr(<<"a", "b", "c">>)

YouthAgeCatalog ==
    {YouthAgeItem(PyInt(19), PyInt(34)),
     YouthAgeItem(PyInt(0), PyInt(99)),
     YouthAgeItem(PyInt(30), PyInt(64)),
     YouthAgeItem(PyInt(40), PyInt(30)),
     YouthAgeItem(PyInt(0), PyInt(150)),
     YouthAgeItem(PyInt(-1), PyInt(60)),
     YouthAgeItem(Missing, PyInt(34)),
     YouthAgeItem(PyInt(19), Missing),
     YouthAgeItem(NotNumeric, PyInt(34)),
     YouthAgeItem(PyInt(19), None)}

YouthAgeResponses ==
    {HttpStatus}
    \cup {HttpJson(PyDict([result |-> PyDict([youthPolicyList |-> PyList(l)])])) :
              l \in SeqsUpTo(YouthAgeCatalog, MaxItems)}

\* the arguments of the call
YouthCallArgs ==
    {[DefaultInfo EXCEPT !.age = a, !.all_ages = b, !.keyword = k, !.max_results = n] :
         a \in {None, PyInt(0), PyInt(25), PyInt(45)}, b \in BOOLEAN,
         k \in {None, PyStr(<<"chwi", "eop">>)}, n \in {1, DEFAULT_MAX_RESULTS}}

InitYouth ==
    /\ pc = "youth_call"
    /\ kullm_loaded = FALSE
    /\ message = <<>>
    /\ user_info \in YouthCallArgs
    /\ calls = <<>>
    /\ response = None
    /\ fetched = None
    /\ all_policies = <<>>
    /\ unique_policies = <<>>
    /\ policy_results = ""
    /\ reply = NoReply

\* search_policies(age, region, category, keyword, max_results, all_ages)
\* runs on the upstream's answer and returns, or raises
YouthCall(resp) ==
    /\ pc = "youth_call"
    /\ response' = resp
    /\ \E out \in YouthSearch(YouthGetPolicies(resp), user_info.age,
                      user_info.region, user_info.category, user_info.keyword,
                      user_info.max_results, user_info.all_ages) :
           /\ all_policies' = out.value
           /\ pc' = IF out.raised THEN "youth_raised" ELSE "youth_returned"
    /\ UNCHANGED <<kullm_loaded, message, user_info, calls, fetched,
                   unique_policies, policy_results, reply>>

NextYouth == \E resp \in YouthAgeResponses : YouthCall(resp)

SpecYouth == InitYouth /\ [][NextYouth]_vars

---------------------------------------------------------------------------
(* Properties.                                                             *)

\* the adapters a request has been issued to
CalledApis == {calls[i].api : i \in 1..Len(calls)}

\* a URL that is a non-empty string
NonEmptyUrl(v) == v.tag = "str" /\ v.s # <<>>

\* the URL deduplication goes by: refUrlAddr1 of a Youth record, url otherwise
RecordUrl(p) ==
    IF Key(p, "source") = SourceYouth
    THEN GetOrNone(Key(p, "refUrlAddr1"))
    ELSE GetOrNone(Key(p, "url"))

\* the place of a record's source in the merge order Youth, BizInfo, AlioPlus
SourceRank(p) ==
    CASE Key(p, "source") = SourceYouth -> 1
      [] Key(p, "source") = SourceBizinfo -> 2
      [] OTHER -> 3

\* C1: when search_policies has made its final selection, the number of
\* selected records is at most the intent's max_results, and it is exactly
\* max_results when more than max_results records survived deduplication.
C1_ResultCount ==
    pc = "searched" =>
        /\ Len(all_policies) <= user_info.max_results
        /\ (Len(unique_policies) > user_info.max_results
                => Len(all_policies) = user_info.max_results)

\* a search in which more records survived deduplication than were asked for
C1_Witness ==
    /\ pc = "searched"
    /\ Len(unique_policies) > user_info.max_results
    /\ Len(all_policies) = user_info.max_results

\* C2: after the deduplication step no two kept records have the same
\* non-empty URL; of the merged candidates with one URL the record kept is
\* the first of them, and the merge lists Youth before BizInfo before AlioPlus.
C2_Dedup ==
    pc = "sample" =>
        /\ \A i, j \in 1..Len(unique_policies) :
               (i < j /\ NonEmptyUrl(RecordUrl(unique_policies[i])))
                   => RecordUrl(unique_policies[i]) # RecordUrl(unique_policies[j])
        /\ \A i \in 1..Len(all_policies) :
               NonEmptyUrl(RecordUrl(all_policies[i])) =>
                   LET first == Min({j \in 1..Len(all_policies) :
                                        RecordUrl(all_policies[j])
                                            = RecordUrl(all_policies[i])})
                   IN  /\ \E k \in 1..Len(unique_policies) :
                              unique_policies[k] = all_policies[first]
                       /\ \A k \in 1..Len(unique_policies) :
                              RecordUrl(unique_policies[k]) = RecordUrl(all_policies[i])
                                  => unique_policies[k] = all_policies[first]
        /\ \A i, j \in 1..Len(all_policies) :
               i < j => SourceRank(all_policies[i]) <= SourceRank(all_policies[j])

\* candidates of two sources with one URL were merged and one was dropped
C2_Witness ==
    /\ pc = "sample"
    /\ Len(unique_policies) < Len(all_policies)
    /\ \E i, j \in 1..Len(all_policies) :
           /\ i < j
           /\ NonEmptyUrl(RecordUrl(all_policies[i]))
           /\ RecordUrl(all_policies[i]) = RecordUrl(all_policies[j])
           /\ SourceRank(all_policies[i]) < SourceRank(all_policies[j])

\* a record whose upstream item carried no URL: no refUrlAddr1 (Youth), no
\* pblancUrl, so that url is the bare prefix (BizInfo), no siteUrl (AlioPlus)
NoUpstreamUrl(p) ==
    CASE Key(p, "source") = SourceYouth -> ~Truthy(GetOrNone(Key(p, "refUrlAddr1")))
      [] Key(p, "source") = SourceBizinfo -> p.url = PyStr(BIZINFO_URL_PREFIX)
      [] OTHER -> ~Truthy(GetOrNone(Key(p, "url")))

\* C3: every record whose upstream item carried no URL is still present after
\* the deduplication step, also when several come from the same source: the
\* records without URL are the same list before and after.
C3_NoUrlKept ==
    pc = "sample" =>
        SelectIdx(unique_policies, NoUpstreamUrl, 1)
            = SelectIdx(all_policies, NoUpstreamUrl, 1)

\* the age bounds of a record are present, numeric, in [0,120] and ordered
ValidAgeBounds(p) ==
    LET lo == Key(p, "sprtTrgtMinAge")
        hi == Key(p, "sprtTrgtMaxAge")
    IN  /\ lo.tag = "int" /\ hi.tag = "int"
        /\ 0 <= lo.n /\ lo.n <= 120
        /\ 0 <= hi.n /\ hi.n <= 120
        /\ lo.n <= hi.n

\* C4: every record YouthPolicyAPI.search_policies returns has valid age
\* bounds and satisfies the predicate of the call: maxAge - minAge >= 50 when
\* all_ages is true, minAge <= age <= maxAge when all_ages is false and an
\* age is given.
C4_AgePredicate ==
    pc = "youth_returned" =>
        \A i \in 1..Len(all_policies) :
            LET p == all_policies[i]
            IN  /\ user_info.all_ages =>
                       /\ ValidAgeBounds(p)
                       /\ p.sprtTrgtMaxAge.n - p.sprtTrgtMinAge.n >= 50
                /\ (~user_info.all_ages /\ user_info.age # None) =>
                       /\ ValidAgeBounds(p)
                       /\ p.sprtTrgtMinAge.n <= user_info.age.n
                       /\ user_info.age.n <= p.sprtTrgtMaxAge.n

\* C5: for an intent whose age is unset or in [0,120], a completed search has
\* called the Youth adapter exactly when target is youth or both and
\* (all_ages or age unset or age <= 39), and BizInfo and AlioPlus exactly when
\* target is business, both or senior.
C5_Gating ==
    (/\ pc = "searched"
     /\ (user_info.age = None \/ (0 <= user_info.age.n /\ user_info.age.n <= 120)))
    =>
        /\ "youth" \in CalledApis <=>
               /\ user_info.target \in {"youth", "both"}
               /\ \/ user_info.all_ages
                  \/ user_info.age = None
                  \/ user_info.age.n <= 39
        /\ "bizinfo" \in CalledApis <=>
               user_info.target \in {"business", "both", "senior"}
        /\ "alioplus" \in CalledApis <=>
               user_info.target \in {"business", "both", "senior"}

\* the factor the claim gives each adapter
C6_ClaimedFactor(api) == IF api = "alioplus" THEN 1 ELSE 2

\* C6 (as claimed): every adapter request asks for max(3, max_results * factor)
\* candidates, factor 2 for Youth and BizInfo and 1 for AlioPlus.
C6_Original ==
    \A i \in 1..Len(calls) :
        calls[i].max_results
            = Max2(3, user_info.max_results * C6_ClaimedFactor(calls[i].api))

\* C6 (amended): every adapter request, to Youth, BizInfo and AlioPlus alike,
\* asks for max(3, max_results * 2) candidates, for every max_results in
\* [1,20].
C6_Overfetch ==
    /\ user_info.max_results \in 1..20
    /\ \A i \in 1..Len(calls) :
           calls[i].max_results = Max2(3, user_info.max_results * 2)

\* AlioPlus was asked for 40 candidates by a search with max_results 20
C6_Witness ==
    /\ user_info.max_results = 20
    /\ \E i \in 1..Len(calls) :
           calls[i].api = "alioplus" /\ calls[i].max_results = 40

\* what the claim says extract_user_info yields for 25살 창원 취업 정책 찾아줘
ScenarioIntent ==
    /\ user_info.age = PyInt(25)
    /\ user_info.region = PyStr(<<"chang", "won">>)
    /\ user_info.keyword = PyStr(<<"chwi", "eop">>)
    /\ user_info.explicit_search
    /\ user_info.max_results = 3

\* C7 (as claimed): for the message 25살 창원 취업 정책 찾아줘 the intent has
\* age 25, region 창원, keyword 취업, explicit_search true, max_results 3, and
\* the search consults Youth, BizInfo and AlioPlus.
C7_Original ==
    (message = MsgScenario /\ pc = "searched") =>
        /\ ScenarioIntent
        /\ CalledApis = {"youth", "bizinfo", "alioplus"}

\* C7 (amended): for that message the intent has age 25, region 창원, keyword
\* 취업, explicit_search true, max_results 3 and target youth, and the search
\* consults the Youth adapter and no other.
C7_Scenario ==
    message = MsgScenario =>
        /\ ScenarioIntent
        /\ user_info.target = "youth"
        /\ CalledApis \subseteq {"youth"}
        /\ pc \in {"youth_wait", "youth_filter", "business", "dedup", "sample",
                   "searched"} => CalledApis = {"youth"}

\* the search for that message ended with records of the Youth adapter alone
C7_Witness ==
    /\ message = MsgScenario
    /\ pc = "searched"
    /\ CalledApis = {"youth"}
    /\ all_policies # <<>>

\* the message holds 이유, 뭐야 or 설명
HasExplainWord(m) ==
    \/ Contains(m, <<"yi", "yu">>)
    \/ Contains(m, <<"mwo", "ya">>)
    \/ Contains(m, <<"seol", "myeong">>)

\* the message holds 줘 or 주세요
HasGiveWord(m) == Contains(m, <<"jwo">>) \/ Contains(m, <<"ju", "se", "yo">>)

\* C8: a message that holds 이유, 뭐야 or 설명 has explicit_search false whatever
\* else it holds; a message without them that is no greeting and holds a
\* policy keyword together with 줘 or 주세요 has explicit_search true, also
\* when it holds a general-question verb.
C8_Precedence ==
    pc = "extracted" =>
        /\ HasExplainWord(message) => ~user_info.explicit_search
        /\ (/\ ~HasExplainWord(message)
            /\ ~IsExtractGreeting(message)
            /\ AnyIn(policy_keywords, message)
            /\ HasGiveWord(message)) => user_info.explicit_search

\* a message with 설명, the search verb 추천, 줘, a policy keyword and an age was
\* extracted, and explicit_search is false
C8_Witness ==
    /\ pc = "extracted"
    /\ Contains(message, <<"seol", "myeong">>)
    /\ Contains(message, <<"chu", "cheon">>)
    /\ Contains(message, <<"jwo">>)
    /\ Contains(message, <<"jeong", "chaek">>)
    /\ Truthy(user_info.age)
    /\ ~user_info.explicit_search

\* C9: whatever an adapter receives from its upstream, no exception reaches
\* search_policies, and a search that has ended has queried every adapter its
\* gates select.
C9_Isolation ==
    /\ reply.head # "exception"
    /\ (pc = "done" /\ user_info.explicit_search) =>
           /\ YouthGate(user_info) => "youth" \in CalledApis
           /\ BusinessGate(user_info) => {"bizinfo", "alioplus"} \subseteq CalledApis

\* the BizInfo upstream answered with jsonArray.item holding one object
SingleItemObject(resp) ==
    /\ resp.kind = "json"
    /\ IsDict(resp.data)
    /\ "jsonArray" \in DOMAIN resp.data.d
    /\ IsDict(resp.data.d.jsonArray)
    /\ "item" \in DOMAIN resp.data.d.jsonArray.d
    /\ IsDict(resp.data.d.jsonArray.d.item)

\* C10: when jsonArray.item holds a single object, get_policies returns
\* exactly one record.
C10_SingleObject ==
    (pc = "bizinfo_filter" /\ SingleItemObject(response)) => Len(fetched) = 1

\* C11: the intent extract_user_info produces has age unset or an integer in
\* [0,120], also when the age comes from the decade pattern "N대", and
\* max_results an integer in [1,20] that is 3 unless a count "<N>개" with
\* 1 <= N <= 20 was matched.
C11_IntentRanges ==
    pc = "extracted" =>
        /\ \/ user_info.age = None
           \/ /\ user_info.age.tag = "int"
              /\ 0 <= user_info.age.n /\ user_info.age.n <= 120
        /\ user_info.max_results \in 1..20
        /\ \/ user_info.max_results = 3
           \/ /\ CountMatch(message) # None
              /\ CountMatch(message).n = user_info.max_results

\* C12: whenever a chat call ran a search and the final record set is empty,
\* the reply is the no-results reply and never the success reply that begins
\* with "관련 정책을 찾아드렸습니다!".
C12_EmptyResult ==
    (/\ pc = "done"
     /\ reply.head \in {"found", "not_found"}
     /\ all_policies = <<>>)
    => reply.head = "not_found"

\* the gates of search_policies select the adapter
Consulted(api) ==
    IF api = "youth" THEN YouthGate(user_info) ELSE BusinessGate(user_info)

\* the adapter was called and has not settled yet
Unsettled(api) ==
    CASE api = "youth" -> pc \in {"youth_wait", "youth_filter"}
      [] api = "bizinfo" -> pc \in {"bizinfo_wait", "bizinfo_filter"}
      [] OTHER -> pc \in {"alioplus_wait", "alioplus_filter"}

\* C13: within one search_policies call no adapter delays or cancels another:
\* while the Youth adapter is unsettled the request of a consulted BizInfo
\* adapter can be issued, while the BizInfo adapter is unsettled the request
\* of the AlioPlus adapter can be issued, and deduplication begins only after
\* every consulted adapter was queried and has settled.
C13_NoDelay ==
    /\ (Unsettled("youth") /\ Consulted("bizinfo")) => ENABLED BizinfoRequest
    /\ Unsettled("bizinfo") => ENABLED AlioplusRequest
    /\ pc = "dedup" =>
           \A api \in {"youth", "bizinfo", "alioplus"} :
               /\ Consulted(api) => api \in CalledApis
               /\ ~Unsettled(api)

\* chat() is inside search_policies or has come back from it
InSearch ==
    \/ Unsettled("youth") \/ Unsettled("bizinfo") \/ Unsettled("alioplus")
    \/ pc \in {"search", "business", "alioplus", "dedup", "sample", "searched"}

\* C14: a chat call whose intent has explicit_search false, a literal greeting
\* included, never invokes search_policies and issues no adapter request, and
\* is answered by the conversational fallback, the fixed guidance reply or the
\* greeting; a chat call whose intent has explicit_search true invokes
\* search_policies, once: no adapter is asked twice, and its answer is the
\* one built from the search.
C14_Routing ==
    pc # "idle" =>
        /\ IsChatGreeting(message) =>
               /\ ~extract_user_info(message).explicit_search
               /\ pc = "done" /\ reply.head = "greeting"
               /\ calls = <<>>
        /\ (~IsChatGreeting(message) /\ ~user_info.explicit_search) =>
               /\ ~InSearch
               /\ calls = <<>>
               /\ pc \in {"kullm", "done"}
               /\ pc = "done" =>
                      reply.head \in {"guidance", "kullm_response", "kullm_failed"}
        /\ (~IsChatGreeting(message) /\ user_info.explicit_search) =>
               /\ InSearch \/ pc = "done"
               /\ Len(calls) = Cardinality(CalledApis)
               /\ pc = "done" =>
                      reply.head \in {"found", "not_found", "exception"}

\* 연봉 협상 잘하는 법 알려줘 went to the conversational fallback and no adapter
\* was asked
C14_Witness ==
    /\ message = MsgSalary
    /\ pc = "done"
    /\ ~user_info.explicit_search
    /\ reply.head = "kullm_response"
    /\ calls = <<>>

====
